---------------------------- MODULE Spec2Model ----------------------------
(***************************************************************************)
(* A model of src/compiler.py (Scanner, Parser) and of the Scheme-style    *)
(* environment chain and evaluator described in spec.md.                   *)
(*                                                                         *)
(* Conventions.  Python indexes from 0 and TLA+ from 1: the Python         *)
(* expression s[i] is written s[i + 1] here, and the cursors `start' and   *)
(* `current' keep their Python values.  A character is a one-character     *)
(* string, except "NUL" (the '\0' that peek() returns at the end of the    *)
(* source) and "sup2" (the character U+00B2, superscript two, for which    *)
(* str.isdigit() is true and float() fails).                               *)
(***************************************************************************)
EXTENDS Integers, Sequences, FiniteSets, TLC

VARIABLES
    scanner,     \* Scanner: [source, tokens, start, current, line]
    scanPc,      \* where the scanner's control is
    raised,      \* the exception that left scan_tokens(), or "none"
    starts,      \* history: the value of scanner.start at each add_token
    called,      \* history: scanner.current at the last call of scan_token(),
                 \* -1 before the first
    parser,      \* Parser: [tokens, current]
    stack,       \* the parser's call stack, innermost call last
    ret,         \* the value the last parser call returned
    statements,  \* the list parse() builds
    examined,    \* history: the token reads of the last parser step, each
                 \* <<index read, value of parser.current at the read>>
    outcome,     \* "idle" | "running" | "returned" | "SyntaxError": parse()
    envs,        \* the arena of Environments; envs[1] is the root
    last,        \* the last top-level evaluation: [prog, v, err]
    defined      \* history: the <<current env, symbol>> of each define of
                 \* the last top-level evaluation

scanVars == <<scanner, scanPc, raised, starts, called>>

parseVars == <<parser, stack, ret, statements, examined, outcome>>

evalVars == <<envs, last, defined>>

vars == <<scanner, scanPc, raised, starts, called, parser, stack, ret, statements, examined, outcome,
          envs, last, defined>>

-----------------------------------------------------------------------------
(* Bounds of the model.                                                    *)

MaxSrcLen == 3

MaxTokens == 3

MaxEnvs == 4

MaxDepth == 12

-----------------------------------------------------------------------------
(* Characters.                                                             *)

AsciiDigits == {"0", "1", "2", "3", "4", "5", "6", "7", "8", "9"}

Letters == {"a", "b", "c", "d", "e", "f", "g", "h", "i", "j", "k", "l", "m",
            "n", "o", "p", "q", "r", "s", "t", "u", "v", "w", "x", "y", "z"}

is_digit(c) == c \in AsciiDigits \cup {"sup2"}

is_alpha(c) == c \in Letters \/ c = "_"

is_alphanumeric(c) == is_alpha(c) \/ is_digit(c)

\* float(text) for a text number() hands it: digits, optionally '.' and
\* digits.  It raises ValueError when a character is no decimal digit.
FloatParses(text) == \A i \in 1..Len(text) : text[i] \in AsciiDigits \cup {"."}

keywords ==
    ( <<"a", "n", "d">> :> "AND" ) @@
    ( <<"o", "r">> :> "OR" ) @@
    ( <<"i", "f">> :> "IF" ) @@
    ( <<"e", "l", "s", "e">> :> "ELSE" ) @@
    ( <<"t", "r", "u", "e">> :> "TRUE" ) @@
    ( <<"f", "a", "l", "s", "e">> :> "FALSE" ) @@
    ( <<"f", "u", "n">> :> "FUN" ) @@
    ( <<"f", "o", "r">> :> "FOR" ) @@
    ( <<"n", "i", "l">> :> "NIL" ) @@
    ( <<"p", "r", "i", "n", "t">> :> "PRINT" ) @@
    ( <<"r", "e", "t", "u", "r", "n">> :> "RETURN" ) @@
    ( <<"v", "a", "r">> :> "VAR" ) @@
    ( <<"w", "h", "i", "l", "e">> :> "WHILE" )

KeywordType(text) ==
    IF text \in DOMAIN keywords THEN keywords[text] ELSE "IDENTIFIER"

SingleCharTokens ==
    ( "(" :> "LEFT_PAREN" ) @@ ( ")" :> "RIGHT_PAREN" ) @@
    ( "{" :> "LEFT_BRACE" ) @@ ( "}" :> "RIGHT_BRACE" ) @@
    ( "," :> "COMMA" ) @@ ( "." :> "DOT" ) @@ ( "-" :> "MINUS" ) @@
    ( "+" :> "PLUS" ) @@ ( ";" :> "SEMICOLON" ) @@ ( "*" :> "STAR" )

\* c :> <<type when the next character is '=', type otherwise>>
OneOrTwoCharTokens ==
    ( "!" :> <<"BANG_EQUAL", "BANG">> ) @@
    ( "=" :> <<"EQUAL_EQUAL", "EQUAL">> ) @@
    ( "<" :> <<"LESS_EQUAL", "LESS">> ) @@
    ( ">" :> <<"GREATER_EQUAL", "GREATER">> )

Token(type, lexeme, literal, line) ==
    [type |-> type, lexeme |-> lexeme, literal |-> literal, line |-> line]

None == [kind |-> "None", text |-> <<>>]

-----------------------------------------------------------------------------
(* Scanner helper methods.                                                 *)

\* s[a:b] for 0 <= a <= b <= len(s)
Slice(s, a, b) == SubSeq(s, a + 1, b)

ScannerInit(source) ==
    [source |-> source, tokens |-> <<>>, start |-> 0, current |-> 0, line |-> 1]

scan_is_at_end(s) == s.current >= Len(s.source)

scan_peek(s) == IF scan_is_at_end(s) THEN "NUL" ELSE s.source[s.current + 1]

peek_next(s) ==
    IF s.current + 1 >= Len(s.source) THEN "NUL" ELSE s.source[s.current + 2]

\* advance() returns source[current - 1] after the increment; the scanner
\* after the call is scan_advance(s), the character returned AdvancedChar(s).
scan_advance(s) == [s EXCEPT !.current = s.current + 1]

AdvancedChar(s) == s.source[s.current + 1]

\* match(expected): the scanner after the call (the cursor moves on a match)
scan_match(s, expected) ==
    IF scan_is_at_end(s) \/ s.source[s.current + 1] # expected
    THEN s
    ELSE [s EXCEPT !.current = s.current + 1]

Matched(s, expected) ==
    ~scan_is_at_end(s) /\ s.source[s.current + 1] = expected

\* an add_token() whose text starts one character late
add_token_late(s, type, literal) ==
    [s EXCEPT !.tokens =
        Append(s.tokens, Token(type, Slice(s.source, s.start + 1, s.current), literal, s.line))]

add_token(s, type, literal) ==
    [s EXCEPT !.tokens =
        Append(s.tokens, Token(type, Slice(s.source, s.start, s.current), literal, s.line))]

-----------------------------------------------------------------------------
(* Scanner steps.  scanPc is "scan_tokens" at the head of the loop of      *)
(* scan_tokens(), "scan_token" when scan_token() has been called,          *)
(* "comment", "string", "number", "number_frac", "identifier" inside the   *)
(* loops of scan_token(), string(), number(), identifier(), "returned"     *)
(* when scan_tokens() has returned and "raised" when an exception left it. *)

Raise(s, exception) ==
    /\ scanner' = s
    /\ scanPc' = "raised"
    /\ raised' = exception
    /\ UNCHANGED <<starts, called>>
    /\ UNCHANGED <<parseVars, evalVars>>

\* A step that ends scan_token() normally after adding a token.
AddAndReturn(s, type, literal) ==
    /\ scanner' = add_token(s, type, literal)
    /\ starts' = Append(starts, s.start)
    /\ scanPc' = "scan_tokens"
    /\ UNCHANGED <<raised, called>>
    /\ UNCHANGED <<parseVars, evalVars>>

Goto(s, pc) ==
    /\ scanner' = s
    /\ scanPc' = pc
    /\ UNCHANGED <<raised, starts, called>>
    /\ UNCHANGED <<parseVars, evalVars>>

scan_tokens ==
    /\ scanPc = "scan_tokens"
    /\ IF ~scan_is_at_end(scanner)
       THEN /\ scanner' = [scanner EXCEPT !.start = scanner.current]
            /\ called' = scanner.current
            /\ scanPc' = "scan_token"
            /\ UNCHANGED <<raised, starts, parseVars, evalVars>>
       ELSE /\ scanner' = [scanner EXCEPT !.tokens =
                             Append(scanner.tokens, Token("EOF", <<>>, None, scanner.line))]
            /\ starts' = Append(starts, scanner.current)
            /\ scanPc' = "returned"
            /\ UNCHANGED <<raised, called>>
            /\ UNCHANGED <<parseVars, evalVars>>

scan_token ==
    /\ scanPc = "scan_token"
    /\ LET c == AdvancedChar(scanner)
           s == scan_advance(scanner)
       IN  CASE c \in DOMAIN SingleCharTokens ->
                    AddAndReturn(s, SingleCharTokens[c], None)
             [] c \in DOMAIN OneOrTwoCharTokens ->
                    AddAndReturn(scan_match(s, "="),
                                 IF Matched(s, "=") THEN OneOrTwoCharTokens[c][1]
                                                    ELSE OneOrTwoCharTokens[c][2],
                                 None)
             [] c = "/" ->
                    IF Matched(s, "/")
                    THEN Goto(scan_match(s, "/"), "comment")
                    ELSE AddAndReturn(s, "SLASH", None)
             [] c \in {" ", "\r", "\t"} -> Goto(s, "scan_tokens")
             [] c = "\n" -> Goto([s EXCEPT !.line = s.line + 1], "scan_tokens")
             [] c = "\"" -> Goto(s, "string")
             [] OTHER ->
                    IF is_digit(c) THEN Goto(s, "number")
                    ELSE IF is_alpha(c) THEN Goto(s, "identifier")
                    ELSE Raise(s, "SyntaxError")

\* the loop of the '//' case of scan_token()
comment ==
    /\ scanPc = "comment"
    /\ IF scan_peek(scanner) # "\n" /\ ~scan_is_at_end(scanner)
       THEN Goto(scan_advance(scanner), "comment")
       ELSE Goto(scanner, "scan_tokens")

string ==
    /\ scanPc = "string"
    /\ IF scan_peek(scanner) # "\"" /\ ~scan_is_at_end(scanner)
       THEN Goto(scan_advance(
                    IF scan_peek(scanner) = "\n"
                    THEN [scanner EXCEPT !.line = scanner.line + 1]
                    ELSE scanner), "string")
       ELSE IF scan_is_at_end(scanner)
            THEN Raise(scanner, "SyntaxError")
            ELSE LET s == scan_advance(scanner)
                 IN  AddAndReturn(s, "STRING",
                        [kind |-> "str", text |-> Slice(s.source, s.start + 1, s.current - 1)])

\* float(source[start:current]) and add_token(NUMBER, value)
NumberEnd(s) ==
    LET text == Slice(s.source, s.start, s.current)
    IN  IF FloatParses(text)
        THEN AddAndReturn(s, "NUMBER", [kind |-> "float", text |-> text])
        ELSE Raise(s, "ValueError")

number ==
    \/ /\ scanPc = "number"
       /\ IF is_digit(scan_peek(scanner))
          THEN Goto(scan_advance(scanner), "number")
          ELSE IF scan_peek(scanner) = "." /\ is_digit(peek_next(scanner))
               THEN Goto(scan_advance(scanner), "number_frac")
               ELSE NumberEnd(scanner)
    \/ /\ scanPc = "number_frac"
       /\ IF is_digit(scan_peek(scanner))
          THEN Goto(scan_advance(scanner), "number_frac")
          ELSE NumberEnd(scanner)

identifier ==
    /\ scanPc = "identifier"
    /\ IF is_alphanumeric(scan_peek(scanner))
       THEN Goto(scan_advance(scanner), "identifier")
       ELSE AddAndReturn(scanner,
                KeywordType(Slice(scanner.source, scanner.start, scanner.current)), None)

ScanNext == scan_tokens \/ scan_token \/ comment \/ string \/ number \/ identifier

-----------------------------------------------------------------------------
(* Source texts.                                                           *)

ScanChars == {"(", ")", ";", "!", "=", "/", " ", "\n", "\"", ".", "1", "i", "f", "@", "sup2"}

SeqsUpTo(S, n) == UNION {[1..k -> S] : k \in 0..n}

ShortSources == SeqsUpTo(ScanChars, MaxSrcLen)

-----------------------------------------------------------------------------
(* Parser helper methods.  Each helper comes with the token reads it       *)
(* makes: peek() reads tokens[current], previous() reads                   *)
(* tokens[current - 1].                                                    *)

ParserInit(tokens) == [tokens |-> tokens, current |-> 0]

\* a previous() that reads one token too far back
PrevIndex_two(p) == IF p.current <= 1 THEN 0 ELSE p.current - 2

\* the index previous() reads: a Python index of -1 is the last element
PrevIndex(p) == IF p.current = 0 THEN Len(p.tokens) - 1 ELSE p.current - 1

peek(p) == p.tokens[p.current + 1]

previous(p) == p.tokens[PrevIndex(p) + 1]

PeekR(p) == {<<p.current, p.current>>}

PrevR(p) == {<<PrevIndex(p), p.current>>}

is_at_end(p) == peek(p).type = "EOF"

check(p, type) == IF is_at_end(p) THEN FALSE ELSE peek(p).type = type

\* an advance() without its is_at_end() test
advance_unguarded(p) == [p EXCEPT !.current = p.current + 1]

\* advance(): the parser after the call; it returns previous()
advance(p) == IF ~is_at_end(p) THEN [p EXCEPT !.current = p.current + 1] ELSE p

AdvanceR(p) == PeekR(p) \cup PrevR(advance(p))

\* match(*types): whether it returns True, the parser after the call
MatchesAny(p, types) == \E t \in types : check(p, t)

match(p, types) == IF MatchesAny(p, types) THEN advance(p) ELSE p

MatchR(p, types) == PeekR(p) \cup (IF MatchesAny(p, types) THEN AdvanceR(p) ELSE {})

\* consume(type, message): raises SyntaxError unless check(type)
ConsumeR(p, type) == PeekR(p) \cup (IF check(p, type) THEN AdvanceR(p) ELSE {})

-----------------------------------------------------------------------------
(* The parser's call stack.  A frame is one call of a Parser method: fn    *)
(* the method, pc the place in its body, expr its local `expr', entry the  *)
(* value of parser.current when it was called and iters the iterations     *)
(* its loop has made (history).                                            *)

Frame(fn, p) == [fn |-> fn, pc |-> "start", expr |-> "None", entry |-> p.current, iters |-> 0]

Top == stack[Len(stack)]

Rest == SubSeq(stack, 1, Len(stack) - 1)

Running(fn, pc) ==
    /\ outcome = "running"
    /\ stack # <<>>
    /\ Top.fn = fn
    /\ Top.pc = pc

\* the caller goes on at pc once fn, called with the parser as p, returns
Call(p, top, fn, reads) ==
    /\ parser' = p
    /\ stack' = Append(Append(Rest, top), Frame(fn, p))
    /\ examined' = reads
    /\ UNCHANGED <<ret, statements, outcome>>
    /\ UNCHANGED <<scanVars, evalVars>>

\* `return self.fn()'
TailCall(p, fn, reads) ==
    /\ parser' = p
    /\ stack' = Append(Rest, Frame(fn, p))
    /\ examined' = reads
    /\ UNCHANGED <<ret, statements, outcome>>
    /\ UNCHANGED <<scanVars, evalVars>>

Goto2(p, top, reads) ==
    /\ parser' = p
    /\ stack' = Append(Rest, top)
    /\ examined' = reads
    /\ UNCHANGED <<ret, statements, outcome>>
    /\ UNCHANGED <<scanVars, evalVars>>

Return(p, value, reads) ==
    /\ parser' = p
    /\ stack' = Rest
    /\ ret' = value
    /\ examined' = reads
    /\ UNCHANGED <<statements, outcome>>
    /\ UNCHANGED <<scanVars, evalVars>>

\* the frames whose try block (declaration, lines 273-276) is active
Handlers == {i \in 1..Len(stack) : stack[i].fn = "declaration" /\ stack[i].pc = "ret"}

Max(S) == CHOOSE x \in S : \A y \in S : y <= x

\* `raise SyntaxError(...)': control goes to the except clause of the
\* innermost declaration() whose try block is active, or leaves parse()
Throw(p, reads) ==
    /\ parser' = p
    /\ examined' = reads
    /\ UNCHANGED <<scanVars, evalVars>>
    /\ IF Handlers # {}
       THEN /\ stack' = [SubSeq(stack, 1, Max(Handlers)) EXCEPT ![Max(Handlers)].pc = "except"]
            /\ UNCHANGED <<ret, statements, outcome>>
       ELSE /\ stack' = <<>>
            /\ outcome' = "SyntaxError"
            /\ UNCHANGED <<ret, statements>>

\* consume(type, message) when check(type): the parser after the call
Consume(p, type) == IF check(p, type) THEN advance(p) ELSE p

-----------------------------------------------------------------------------
(* Parser methods.                                                         *)

ParseLoop(stmts) ==
    /\ statements' = stmts
    /\ examined' = PeekR(parser)
    /\ UNCHANGED <<scanVars, evalVars>>
    /\ IF ~is_at_end(parser)
       THEN /\ stack' = Append(Append(Rest, [Top EXCEPT !.pc = "append", !.iters = @ + 1]),
                               Frame("declaration", parser))
            /\ UNCHANGED <<parser, ret, outcome>>
       ELSE /\ stack' = Rest
            /\ outcome' = "returned"
            /\ UNCHANGED <<parser, ret>>

\* a parse() with `if' for `while': it returns after one declaration
parse_once ==
    \/ /\ Running("parse", "start")
       /\ ParseLoop(<<>>)
    \/ /\ Running("parse", "append")
       /\ statements' = Append(statements, ret)
       /\ examined' = {}
       /\ stack' = Rest
       /\ outcome' = "returned"
       /\ UNCHANGED <<parser, ret, scanVars, evalVars>>

parse ==
    \/ /\ Running("parse", "start")
       /\ ParseLoop(<<>>)
    \/ /\ Running("parse", "append")
       /\ ParseLoop(Append(statements, ret))

declaration ==
    \/ /\ Running("declaration", "start")
       /\ IF MatchesAny(parser, {"VAR"})
          THEN Call(match(parser, {"VAR"}), [Top EXCEPT !.pc = "ret"], "var_declaration",
                    MatchR(parser, {"VAR"}))
          ELSE Call(parser, [Top EXCEPT !.pc = "ret"], "statement", MatchR(parser, {"VAR"}))
    \/ /\ Running("declaration", "ret")
       /\ Return(parser, ret, {})
    \/ /\ Running("declaration", "except")
       /\ Call(parser, [Top EXCEPT !.pc = "none"], "synchronize", {})
    \/ /\ Running("declaration", "none")
       /\ Return(parser, "None", {})

var_declaration ==
    \/ /\ Running("var_declaration", "start")
       /\ LET p1 == Consume(parser, "IDENTIFIER")
              r1 == ConsumeR(parser, "IDENTIFIER")
              p2 == match(p1, {"EQUAL"})
              r2 == r1 \cup MatchR(p1, {"EQUAL"})
          IN  IF ~check(parser, "IDENTIFIER") THEN Throw(parser, r1)
              ELSE IF MatchesAny(p1, {"EQUAL"})
                   THEN Call(p2, [Top EXCEPT !.pc = "semi"], "expression", r2)
                   ELSE IF check(p1, "SEMICOLON")
                        THEN Return(Consume(p1, "SEMICOLON"), "Var",
                                    r2 \cup ConsumeR(p1, "SEMICOLON"))
                        ELSE Throw(p1, r2 \cup ConsumeR(p1, "SEMICOLON"))
    \/ /\ Running("var_declaration", "semi")
       /\ IF check(parser, "SEMICOLON")
          THEN Return(Consume(parser, "SEMICOLON"), "Var", ConsumeR(parser, "SEMICOLON"))
          ELSE Throw(parser, ConsumeR(parser, "SEMICOLON"))

statement ==
    \/ /\ Running("statement", "start")
       /\ LET r == MatchR(parser, {"IF", "PRINT", "WHILE", "LEFT_BRACE"})
              p == match(parser, {"IF", "PRINT", "WHILE", "LEFT_BRACE"})
          IN  CASE check(parser, "IF") -> TailCall(p, "if_statement", r)
                [] check(parser, "PRINT") -> TailCall(p, "print_statement", r)
                [] check(parser, "WHILE") -> TailCall(p, "while_statement", r)
                [] check(parser, "LEFT_BRACE") -> Call(p, [Top EXCEPT !.pc = "block"], "block", r)
                [] OTHER -> TailCall(parser, "expression_statement", r)
    \/ /\ Running("statement", "block")
       /\ Return(parser, "Block", {})

if_statement ==
    \/ /\ Running("if_statement", "start")
       /\ IF check(parser, "LEFT_PAREN")
          THEN Call(Consume(parser, "LEFT_PAREN"), [Top EXCEPT !.pc = "cond"], "expression",
                    ConsumeR(parser, "LEFT_PAREN"))
          ELSE Throw(parser, ConsumeR(parser, "LEFT_PAREN"))
    \/ /\ Running("if_statement", "cond")
       /\ IF check(parser, "RIGHT_PAREN")
          THEN Call(Consume(parser, "RIGHT_PAREN"), [Top EXCEPT !.pc = "then"], "statement",
                    ConsumeR(parser, "RIGHT_PAREN"))
          ELSE Throw(parser, ConsumeR(parser, "RIGHT_PAREN"))
    \/ /\ Running("if_statement", "then")
       /\ IF MatchesAny(parser, {"ELSE"})
          THEN Call(match(parser, {"ELSE"}), [Top EXCEPT !.pc = "else"], "statement",
                    MatchR(parser, {"ELSE"}))
          ELSE Return(parser, "If", MatchR(parser, {"ELSE"}))
    \/ /\ Running("if_statement", "else")
       /\ Return(parser, "If", {})

print_statement ==
    \/ /\ Running("print_statement", "start")
       /\ Call(parser, [Top EXCEPT !.pc = "semi"], "expression", {})
    \/ /\ Running("print_statement", "semi")
       /\ IF check(parser, "SEMICOLON")
          THEN Return(Consume(parser, "SEMICOLON"), "Print", ConsumeR(parser, "SEMICOLON"))
          ELSE Throw(parser, ConsumeR(parser, "SEMICOLON"))

while_statement ==
    \/ /\ Running("while_statement", "start")
       /\ IF check(parser, "LEFT_PAREN")
          THEN Call(Consume(parser, "LEFT_PAREN"), [Top EXCEPT !.pc = "cond"], "expression",
                    ConsumeR(parser, "LEFT_PAREN"))
          ELSE Throw(parser, ConsumeR(parser, "LEFT_PAREN"))
    \/ /\ Running("while_statement", "cond")
       /\ IF check(parser, "RIGHT_PAREN")
          THEN Call(Consume(parser, "RIGHT_PAREN"), [Top EXCEPT !.pc = "body"], "statement",
                    ConsumeR(parser, "RIGHT_PAREN"))
          ELSE Throw(parser, ConsumeR(parser, "RIGHT_PAREN"))
    \/ /\ Running("while_statement", "body")
       /\ Return(parser, "While", {})

block ==
    /\ Running("block", "start")
    /\ IF ~check(parser, "RIGHT_BRACE") /\ ~is_at_end(parser)
       THEN Call(parser, [Top EXCEPT !.iters = @ + 1], "declaration", PeekR(parser))
       ELSE IF check(parser, "RIGHT_BRACE")
            THEN Return(Consume(parser, "RIGHT_BRACE"), "statements",
                        ConsumeR(parser, "RIGHT_BRACE"))
            ELSE Throw(parser, ConsumeR(parser, "RIGHT_BRACE"))

expression_statement ==
    \/ /\ Running("expression_statement", "start")
       /\ Call(parser, [Top EXCEPT !.pc = "semi"], "expression", {})
    \/ /\ Running("expression_statement", "semi")
       /\ IF check(parser, "SEMICOLON")
          THEN Return(Consume(parser, "SEMICOLON"), "Expression", ConsumeR(parser, "SEMICOLON"))
          ELSE Throw(parser, ConsumeR(parser, "SEMICOLON"))

expression ==
    /\ Running("expression", "start")
    /\ TailCall(parser, "assignment", {})

assignment ==
    \/ /\ Running("assignment", "start")
       /\ Call(parser, [Top EXCEPT !.pc = "expr"], "equality", {})
    \/ /\ Running("assignment", "expr")
       /\ IF MatchesAny(parser, {"EQUAL"})
          THEN LET p == match(parser, {"EQUAL"})
               IN  Call(p, [Top EXCEPT !.pc = "value", !.expr = ret], "assignment",
                        MatchR(parser, {"EQUAL"}) \cup PrevR(p))
          ELSE Return(parser, ret, MatchR(parser, {"EQUAL"}))
    \/ /\ Running("assignment", "value")
       /\ IF Top.expr = "Variable"
          THEN Return(parser, "Assign", {})
          ELSE Throw(parser, {})

\* equality(), comparison(), term() and factor(): `sub' parses an operand
\* and `ops' are the operators of the level
BinaryLevel(fn, sub, ops) ==
    \/ /\ Running(fn, "start")
       /\ Call(parser, [Top EXCEPT !.pc = "left"], sub, {})
    \/ /\ Running(fn, "left") \/ Running(fn, "right")
       /\ LET expr == IF Top.pc = "left" THEN ret ELSE "Binary"
          IN  IF MatchesAny(parser, ops)
              THEN LET p == match(parser, ops)
                   IN  Call(p, [Top EXCEPT !.pc = "right", !.expr = expr, !.iters = @ + 1], sub,
                            MatchR(parser, ops) \cup PrevR(p))
              ELSE Return(parser, expr, MatchR(parser, ops))

equality == BinaryLevel("equality", "comparison", {"BANG_EQUAL", "EQUAL_EQUAL"})

comparison ==
    BinaryLevel("comparison", "term", {"GREATER", "GREATER_EQUAL", "LESS", "LESS_EQUAL"})

term == BinaryLevel("term", "factor", {"MINUS", "PLUS"})

factor == BinaryLevel("factor", "unary", {"SLASH", "STAR"})

unary ==
    \/ /\ Running("unary", "start")
       /\ IF MatchesAny(parser, {"BANG", "MINUS"})
          THEN LET p == match(parser, {"BANG", "MINUS"})
               IN  Call(p, [Top EXCEPT !.pc = "right"], "unary",
                        MatchR(parser, {"BANG", "MINUS"}) \cup PrevR(p))
          ELSE TailCall(parser, "primary", MatchR(parser, {"BANG", "MINUS"}))
    \/ /\ Running("unary", "right")
       /\ Return(parser, "Unary", {})

primary ==
    \/ /\ Running("primary", "start")
       /\ LET types == {"FALSE", "TRUE", "NIL", "NUMBER", "STRING", "IDENTIFIER", "LEFT_PAREN"}
              p == match(parser, types)
              r == MatchR(parser, types)
          IN  CASE MatchesAny(parser, {"FALSE", "TRUE", "NIL"}) -> Return(p, "Literal", r)
                [] MatchesAny(parser, {"NUMBER", "STRING"}) ->
                        Return(p, "Literal", r \cup PrevR(p))
                [] check(parser, "IDENTIFIER") -> Return(p, "Variable", r \cup PrevR(p))
                [] check(parser, "LEFT_PAREN") ->
                        Call(p, [Top EXCEPT !.pc = "group"], "expression", r)
                [] OTHER -> Throw(parser, r)
    \/ /\ Running("primary", "group")
       /\ IF check(parser, "RIGHT_PAREN")
          THEN Return(Consume(parser, "RIGHT_PAREN"), "Grouping", ConsumeR(parser, "RIGHT_PAREN"))
          ELSE Throw(parser, ConsumeR(parser, "RIGHT_PAREN"))

\* a synchronize() without its first advance()
synchronize_no_advance ==
    \/ /\ Running("synchronize", "start")
       /\ Goto2(parser, [Top EXCEPT !.pc = "loop"], {})
    \/ /\ Running("synchronize", "loop")
       /\ is_at_end(parser) \/ previous(parser).type = "SEMICOLON"
       /\ Return(parser, "None",
                 PeekR(parser) \cup (IF is_at_end(parser) THEN {} ELSE PrevR(parser)))
    \/ /\ Running("synchronize", "loop")
       /\ ~is_at_end(parser) /\ previous(parser).type # "SEMICOLON"
       /\ \/ Return(parser, "None", PeekR(parser) \cup PrevR(parser))
          \/ Goto2(advance(parser), [Top EXCEPT !.iters = @ + 1],
                   PeekR(parser) \cup PrevR(parser) \cup AdvanceR(parser))

\* synchronize(): the source text ends inside its loop, at `match self'
\* (line 462).  The statement that is cut off is modelled by every outcome
\* a loop body of advance() and return can have: the loop returns, or it
\* advances and goes round again.
synchronize ==
    \/ /\ Running("synchronize", "start")
       /\ Goto2(advance(parser), [Top EXCEPT !.pc = "loop"], AdvanceR(parser))
    \/ /\ Running("synchronize", "loop")
       /\ is_at_end(parser) \/ previous(parser).type = "SEMICOLON"
       /\ Return(parser, "None",
                 PeekR(parser) \cup (IF is_at_end(parser) THEN {} ELSE PrevR(parser)))
    \/ /\ Running("synchronize", "loop")
       /\ ~is_at_end(parser) /\ previous(parser).type # "SEMICOLON"
       /\ \/ Return(parser, "None", PeekR(parser) \cup PrevR(parser))
          \/ Goto2(advance(parser), [Top EXCEPT !.iters = @ + 1],
                   PeekR(parser) \cup PrevR(parser) \cup AdvanceR(parser))

ParseNext ==
    \/ parse \/ declaration \/ var_declaration \/ statement \/ if_statement
    \/ print_statement \/ while_statement \/ block \/ expression_statement
    \/ expression \/ assignment \/ equality \/ comparison \/ term \/ factor
    \/ unary \/ primary \/ synchronize

-----------------------------------------------------------------------------
(* The Scheme-style evaluator of spec.md (sections 3, 4.3, 4.4, 4.5).  Its  *)
(* code is not part of src/: these definitions follow the specification.   *)
(* An Expression or Value is a record tagged by t.                         *)

Num(n) == [t |-> "num", n |-> n]

Sym(name) == [t |-> "sym", s |-> name]

List(elems) == [t |-> "list", l |-> elems]

Bool(b) == [t |-> "bool", b |-> b]

NoValue == [t |-> "none"]

Unbound == [t |-> "unbound"]

\* a closure that captures the root Environment, not the current one
Closure_root(params, body, env) ==
    [t |-> "closure", params |-> params, body |-> body, env |-> 1]

Closure(params, body, env) == [t |-> "closure", params |-> params, body |-> body, env |-> env]

Primitive(name) == [t |-> "prim", s |-> name]

Primitives == {"+", "-", "*", "=", "<"}

Symbols == Primitives \cup {"x", "y", "v", "f", "mk", "caller", "setx", "a", "b", "c", "d"}

\* An Environment: a mapping from symbol to value (Unbound where the scope
\* has no binding) and a parent (0: none).  The root holds the primitives.
RootEnvironment ==
    [vars |-> [s \in Symbols |-> IF s \in Primitives THEN Primitive(s) ELSE Unbound],
     parent |-> 0]

Ok(v, st) == [v |-> v, st |-> st, err |-> "none"]

Fail(kind, st) == [v |-> NoValue, st |-> st, err |-> kind]

RECURSIVE lookup(_, _, _)
\* lookup(symbol): the binding of the innermost scope that has one
lookup(es, env, symbol) ==
    IF env = 0 THEN Unbound
    ELSE IF es[env].vars[symbol] # Unbound THEN es[env].vars[symbol]
    ELSE lookup(es, es[env].parent, symbol)

RECURSIVE ScopeOf(_, _, _)
\* the innermost scope from env outward that binds symbol, or 0
ScopeOf(es, env, symbol) ==
    IF env = 0 THEN 0
    ELSE IF es[env].vars[symbol] # Unbound THEN env
    ELSE ScopeOf(es, es[env].parent, symbol)

\* a define that overwrites the binding of the scope that has one
define_outer(st, env, symbol, value) ==
    LET scope == IF ScopeOf(st.envs, env, symbol) = 0 THEN env
                 ELSE ScopeOf(st.envs, env, symbol)
    IN  [envs |-> [st.envs EXCEPT ![scope].vars[symbol] = value],
         defined |-> st.defined \cup {<<env, symbol>>}]

\* define(symbol, value): the binding of the current scope
define(st, env, symbol, value) ==
    [envs |-> [st.envs EXCEPT ![env].vars[symbol] = value],
     defined |-> st.defined \cup {<<env, symbol>>}]

\* a test for which every number is truthy
Truthy_numbers(v) ==
    CASE v.t = "bool" -> v.b
      [] v.t = "none" -> FALSE
      [] OTHER -> TRUE

\* the `if' form's test, by the host's rules: false, the absent value and
\* the number zero are falsy; the empty List is truthy (section 4.4)
Truthy(v) ==
    CASE v.t = "bool" -> v.b
      [] v.t = "none" -> FALSE
      [] v.t = "num" -> v.n # 0
      [] OTHER -> TRUE

RECURSIVE Fold(_, _, _)
Fold(op, args, i) ==
    IF i = Len(args) THEN args[i].n
    ELSE LET rest == Fold(op, args, i + 1)
         IN  CASE op = "+" -> args[i].n + rest
               [] op = "*" -> args[i].n * rest

\* '+' and '*' fold their arguments; '-' negates one argument or subtracts
\* the others from the first; '=' and '<' take two
ApplyPrimitive(name, args, st) ==
    IF \E i \in 1..Len(args) : args[i].t # "num" THEN Fail("InvalidExpression", st)
    ELSE CASE name = "+" -> Ok(Num(IF args = <<>> THEN 0 ELSE Fold("+", args, 1)), st)
           [] name = "*" -> Ok(Num(IF args = <<>> THEN 1 ELSE Fold("*", args, 1)), st)
           [] name = "-" ->
                IF args = <<>> THEN Fail("InvalidExpression", st)
                ELSE IF Len(args) = 1 THEN Ok(Num(0 - args[1].n), st)
                ELSE Ok(Num(args[1].n - Fold("+", Tail(args), 1)), st)
           [] OTHER ->
                IF Len(args) # 2 THEN Fail("InvalidExpression", st)
                ELSE IF name = "=" THEN Ok(Bool(args[1].n = args[2].n), st)
                ELSE Ok(Bool(args[1].n < args[2].n), st)

IsSpecial(x, name) == x.l[1].t = "sym" /\ x.l[1].s = name

\* the child Environment of a Closure invocation: its parent is the
\* Environment the Closure captured, its parameters bound positionally
Invocation(closure, args) ==
    [vars |-> [s \in Symbols |->
                 IF \E i \in 1..Len(closure.params) : closure.params[i].s = s
                 THEN args[CHOOSE i \in 1..Len(closure.params) : closure.params[i].s = s]
                 ELSE Unbound],
     parent |-> closure.env]

RECURSIVE evaluate(_, _, _, _), EvalArgs(_, _, _, _, _), EvalBody(_, _, _, _, _)

\* the elements of a sequence from left to right: the values and the state
EvalArgs(xs, i, env, st, depth) ==
    IF i > Len(xs) THEN [vs |-> <<>>, st |-> st, err |-> "none"]
    ELSE LET r == evaluate(xs[i], env, st, depth)
         IN  IF r.err # "none" THEN [vs |-> <<>>, st |-> r.st, err |-> r.err]
             ELSE LET more == EvalArgs(xs, i + 1, env, r.st, depth)
                  IN  [more EXCEPT !.vs = <<r.v>> \o more.vs]

\* a body sequence in order: the value of the last expression
EvalBody(body, i, env, st, depth) ==
    LET r == evaluate(body[i], env, st, depth)
    IN  IF r.err # "none" \/ i = Len(body) THEN r
        ELSE EvalBody(body, i + 1, env, r.st, depth)

Apply(f, args, st, depth) ==
    CASE f.t = "prim" -> ApplyPrimitive(f.s, args, st)
      [] f.t = "closure" ->
            IF Len(args) # Len(f.params) THEN Fail("ArityMismatch", st)
            ELSE LET child == Len(st.envs) + 1
                     entered == [st EXCEPT !.envs = Append(st.envs, Invocation(f, args))]
                 IN  EvalBody(f.body, 1, child, entered, depth)
      [] OTHER -> Fail("InvalidExpression", st)

evaluate(x, env, st, depth) ==
    IF depth = 0 THEN Fail("RecursionError", st)
    ELSE CASE x.t = "num" -> Ok(x, st)
           [] x.t = "sym" ->
                IF lookup(st.envs, env, x.s) = Unbound THEN Fail("UnboundSymbol", st)
                ELSE Ok(lookup(st.envs, env, x.s), st)
           [] x.t = "list" /\ x.l = <<>> -> Ok(x, st)
           [] x.t = "list" /\ x.l # <<>> ->
                LET args == Tail(x.l)
                IN  IF IsSpecial(x, "quote")
                    THEN IF Len(args) = 1 THEN Ok(args[1], st)
                         ELSE Fail("MalformedSpecialForm", st)
                    ELSE IF IsSpecial(x, "define")
                    THEN IF Len(args) # 2 \/ args[1].t # "sym"
                         THEN Fail("MalformedSpecialForm", st)
                         ELSE LET r == evaluate(args[2], env, st, depth - 1)
                              IN  IF r.err # "none" THEN r
                                  ELSE Ok(NoValue, define(r.st, env, args[1].s, r.v))
                    ELSE IF IsSpecial(x, "if")
                    THEN IF Len(args) \notin {2, 3} THEN Fail("MalformedSpecialForm", st)
                         ELSE LET cond == evaluate(args[1], env, st, depth - 1)
                              IN  IF cond.err # "none" THEN cond
                                  ELSE IF Truthy(cond.v)
                                       THEN evaluate(args[2], env, cond.st, depth - 1)
                                       ELSE IF Len(args) = 3
                                            THEN evaluate(args[3], env, cond.st, depth - 1)
                                            ELSE Ok(NoValue, cond.st)
                    ELSE IF IsSpecial(x, "lambda")
                    THEN IF \/ Len(args) < 2
                            \/ args[1].t # "list"
                            \/ \E i \in 1..Len(args[1].l) : args[1].l[i].t # "sym"
                         THEN Fail("MalformedSpecialForm", st)
                         ELSE Ok(Closure(args[1].l, Tail(args), env), st)
                    ELSE LET f == evaluate(x.l[1], env, st, depth - 1)
                         IN  IF f.err # "none" THEN f
                             ELSE LET a == EvalArgs(args, 1, env, f.st, depth - 1)
                                  IN  IF a.err # "none" THEN Fail(a.err, a.st)
                                      ELSE Apply(f.v, a.vs, a.st, depth - 1)
           [] OTHER -> Fail("InvalidExpression", st)

-----------------------------------------------------------------------------
(* The read loop's side: top-level Expressions, each evaluated in the root *)
(* Environment.                                                            *)

S(name) == Sym(name)

L1(a) == List(<<a>>)

L2(a, b) == List(<<a, b>>)

L3(a, b, c) == List(<<a, b, c>>)

L4(a, b, c, d) == List(<<a, b, c, d>>)

L5(a, b, c, d, e) == List(<<a, b, c, d, e>>)

Programs == <<
    \* 1: (define y 2)
    L3(S("define"), S("y"), Num(2)),
    \* 2: (define mk (lambda (y) (lambda (x) y)))
    L3(S("define"), S("mk"),
       L3(S("lambda"), L1(S("y")), L3(S("lambda"), L1(S("x")), S("y")))),
    \* 3: (define f (mk 1))
    L3(S("define"), S("f"), L2(S("mk"), Num(1))),
    \* 4: (define caller (lambda (y) (f 0)))
    L3(S("define"), S("caller"), L3(S("lambda"), L1(S("y")), L2(S("f"), Num(0)))),
    \* 5: (caller 2)
    L2(S("caller"), Num(2)),
    \* 6: (define x 5)
    L3(S("define"), S("x"), Num(5)),
    \* 7: (define setx (lambda (v) (define x v) (define y (+ x 1)) x))
    L3(S("define"), S("setx"),
       L5(S("lambda"), L1(S("v")), L3(S("define"), S("x"), S("v")),
          L3(S("define"), S("y"), L3(S("+"), S("x"), Num(1))), S("x"))),
    \* 8: (setx 7)
    L2(S("setx"), Num(7)),
    \* 9: x
    S("x"),
    \* 10: (if 0 (define a 1) (define b 2))
    L4(S("if"), Num(0), L3(S("define"), S("a"), Num(1)), L3(S("define"), S("b"), Num(2))),
    \* 11: (if (< 0 1) (define c 1) (define d 2))
    L4(S("if"), L3(S("<"), Num(0), Num(1)),
       L3(S("define"), S("c"), Num(1)), L3(S("define"), S("d"), Num(2))),
    \* 12: (if 0 1 2)
    L4(S("if"), Num(0), Num(1), Num(2)),
    \* 13: y
    S("y") >>

\* evaluate(expr, root): one line of the read loop
Evaluate(i) ==
    LET r == evaluate(Programs[i], 1, [envs |-> envs, defined |-> {}], MaxDepth)
    IN  /\ Len(r.st.envs) <= MaxEnvs
        /\ envs' = r.st.envs
        /\ defined' = r.st.defined
        /\ last' = [prog |-> i, v |-> r.v, err |-> r.err]
        /\ UNCHANGED <<scanVars, parseVars>>

EvalNext == \E i \in DOMAIN Programs : Evaluate(i)

EvalIdle ==
    /\ envs = <<RootEnvironment>>
    /\ last = [prog |-> 0, v |-> NoValue, err |-> "none"]
    /\ defined = {}

-----------------------------------------------------------------------------
(* Token lists.                                                            *)

Tok(type) == Token(type, <<>>, None, 1)

\* the token types of the short token lists; the sample lists have others
TokenTypes ==
    {"LEFT_PAREN", "RIGHT_PAREN", "LEFT_BRACE", "RIGHT_BRACE", "SEMICOLON", "EQUAL",
     "IDENTIFIER", "NUMBER", "VAR"}

\* a token list as scan_tokens() returns it: one EOF token, the last
WithEOF(types) == [i \in 1..(Len(types) + 1) |->
                      IF i <= Len(types) THEN Tok(types[i]) ELSE Tok("EOF")]

ShortTokenLists == {WithEOF(types) : types \in SeqsUpTo(TokenTypes, MaxTokens)}

SampleTokenLists == {WithEOF(types) : types \in {
    <<"LEFT_PAREN", "PLUS", "NUMBER", "NUMBER">>,
    <<"IF", "LEFT_PAREN", "IDENTIFIER", "RIGHT_PAREN", "IDENTIFIER", "SEMICOLON",
      "ELSE", "LEFT_BRACE", "IDENTIFIER", "EQUAL", "NUMBER", "SEMICOLON", "RIGHT_BRACE">>,
    <<"WHILE", "LEFT_PAREN", "TRUE", "RIGHT_PAREN", "PRINT", "STRING", "SEMICOLON">>,
    <<"VAR", "IDENTIFIER", "EQUAL", "LEFT_PAREN", "NUMBER", "SLASH", "NUMBER", "RIGHT_PAREN",
      "SEMICOLON", "VAR", "IDENTIFIER", "SEMICOLON">>,
    <<"LEFT_BRACE", "NUMBER", "EQUAL", "NUMBER", "SEMICOLON", "IDENTIFIER", "SEMICOLON",
      "RIGHT_BRACE">>,
    <<"BANG", "FALSE", "BANG_EQUAL", "NIL", "GREATER", "NUMBER", "SEMICOLON">>,
    <<"MINUS", "IDENTIFIER", "MINUS", "NUMBER", "STAR", "NUMBER", "SEMICOLON">>,
    <<"PRINT", "IDENTIFIER", "RIGHT_PAREN", "IDENTIFIER", "SEMICOLON", "NUMBER">>,
    <<"PRINT", "SEMICOLON", "MINUS">>,
    <<"IF", "LEFT_PAREN", "NUMBER", "LEFT_BRACE", "RIGHT_BRACE">>,
    <<"WHILE", "IDENTIFIER", "SEMICOLON", "LEFT_BRACE", "RIGHT_PAREN", "RIGHT_BRACE">>}}

ParseIdle ==
    /\ parser = ParserInit(<<>>)
    /\ stack = <<>>
    /\ ret = "None"
    /\ statements = <<>>
    /\ examined = {}
    /\ outcome = "idle"

\* Parser(tokens).parse()
ParseStart(tokens) ==
    /\ parser = ParserInit(tokens)
    /\ stack = <<Frame("parse", ParserInit(tokens))>>
    /\ ret = "None"
    /\ statements = <<>>
    /\ examined = {}
    /\ outcome = "running"

ScanIdle ==
    /\ scanner = ScannerInit(<<>>)
    /\ scanPc = "returned"
    /\ raised = "none"
    /\ starts = <<>>
    /\ called = -1

ParseInit ==
    /\ ScanIdle
    /\ EvalIdle
    /\ \E tokens \in ShortTokenLists \cup SampleTokenLists : ParseStart(tokens)

SpecParse == ParseInit /\ [][ParseNext]_vars

ScanInit ==
    /\ scanner \in {ScannerInit(src) : src \in ShortSources}
    /\ scanPc = "scan_tokens"
    /\ raised = "none"
    /\ starts = <<>>
    /\ called = -1
    /\ ParseIdle
    /\ EvalIdle

SpecScan == ScanInit /\ [][ScanNext]_vars

\* source texts that reach each statement and expression form
SampleSources == {
    \* (+ 1 2
    <<"(", "+", " ", "1", " ", "2">>,
    \* if(x)y;else{z=1.5;}
    <<"i", "f", "(", "x", ")", "y", ";", "e", "l", "s", "e", "{", "z", "=", "1", ".",
      "5", ";", "}">>,
    \* while(true)print "a";
    <<"w", "h", "i", "l", "e", "(", "t", "r", "u", "e", ")", "p", "r", "i", "n", "t",
      " ", "\"", "a", "\"", ";">>,
    \* var a=(1/2);var b;
    <<"v", "a", "r", " ", "a", "=", "(", "1", "/", "2", ")", ";", "v", "a", "r", " ",
      "b", ";">>,
    \* !false!=nil>1;
    <<"!", "f", "a", "l", "s", "e", "!", "=", "n", "i", "l", ">", "1", ";">>,
    \* {1=2;x;}
    <<"{", "1", "=", "2", ";", "x", ";", "}">>,
    \* -a*b<c==d;//c\n
    <<"-", "a", "*", "b", "<", "c", "=", "=", "d", ";", "/", "/", "c", "\n">>,
    \* x=1(U+00B2);
    <<"x", "=", "1", "sup2", ";">>,
    \* print"a\nb";
    <<"p", "r", "i", "n", "t", "\"", "a", "\n", "b", "\"", ";">> }

PipeChars == {"(", ")", ";", "=", " ", "1", "x", "{"}

PipeSources == SampleSources \cup SeqsUpTo(PipeChars, MaxSrcLen)

\* Parser(Scanner(source).scan_tokens()).parse()
NewParser ==
    /\ scanPc = "returned"
    /\ outcome = "idle"
    /\ parser' = ParserInit(scanner.tokens)
    /\ stack' = <<Frame("parse", ParserInit(scanner.tokens))>>
    /\ outcome' = "running"
    /\ UNCHANGED <<ret, statements, examined, scanVars, evalVars>>

Init ==
    /\ scanner \in {ScannerInit(src) : src \in PipeSources}
    /\ scanPc = "scan_tokens"
    /\ raised = "none"
    /\ starts = <<>>
    /\ called = -1
    /\ ParseIdle
    /\ EvalIdle

Next == ScanNext \/ NewParser \/ ParseNext

Spec == Init /\ [][Next]_vars

SpecParseFair == SpecParse /\ WF_vars(ParseNext)

EvalInit == ScanIdle /\ ParseIdle /\ EvalIdle

SpecEval == EvalInit /\ [][EvalNext]_vars

-----------------------------------------------------------------------------
(* Claims.                                                                 *)

\* C1: a closure resolves its free variables in the environment that was
\* active when its lambda was evaluated.  f is (mk 1), the closure
\* (lambda (x) y) made where y is 1; (caller 2) calls f from a scope where
\* y is 2: the value is 1.
C1_ClosureUsesDefiningEnv ==
    (last.prog = 5 /\ last.err = "none") => last.v = Num(1)

\* (caller 2) has returned, with y bound to 2 in the root scope too
C1_Witness ==
    /\ last.prog = 5
    /\ last.err = "none"
    /\ envs[1].vars["y"] = Num(2)
    /\ \E i \in 2..Len(envs) : envs[i].vars["y"] = Num(2)
    /\ \E i \in 2..Len(envs) : envs[i].vars["y"] = Num(1)

\* the bindings of environment i that a step changes
Changed(i) == {s \in Symbols : envs'[i].vars[s] # envs[i].vars[s]}

\* C2: define changes the current environment only.  A top-level evaluation
\* changes a binding of an existing environment only by a define whose
\* current scope that environment is, so the defines of a child scope leave
\* every ancestor as it was; and x, which only (define x 5) binds in the
\* root, is 5 or unbound when looked up from the root.
C2_DefineIsLocal ==
    /\ [][\A i \in 1..Len(envs) : \A s \in Changed(i) : <<i, s>> \in defined']_vars
    /\ [](last.prog = 9 =>
            \/ last.err = "none" /\ last.v = Num(5)
            \/ last.err = "UnboundSymbol" /\ envs[1].vars["x"] = Unbound)

\* (setx 7) has defined x and y in its own scope; the root keeps x = 5, y = 2
C2_Witness ==
    /\ last.prog = 8
    /\ last.err = "none"
    /\ envs[1].vars["x"] = Num(5)
    /\ envs[1].vars["y"] = Num(2)
    /\ \E i \in 2..Len(envs) : envs[i].vars["x"] = Num(7) /\ envs[i].vars["y"] = Num(8)

RECURSIVE OpenParens(_, _)
\* the opening parentheses of a token list that no closing one matches
OpenParens(tokens, i) ==
    IF i = 0 THEN 0
    ELSE LET n == OpenParens(tokens, i - 1)
         IN  CASE tokens[i].type = "LEFT_PAREN" -> n + 1
               [] tokens[i].type = "RIGHT_PAREN" /\ n > 0 -> n - 1
               [] OTHER -> n

\* C4: an opening parenthesis that is never closed makes the parse call
\* fail with an error instead of returning a result.
C4_UnclosedParenFails ==
    (outcome \in {"returned", "SyntaxError"}
        /\ OpenParens(parser.tokens, Len(parser.tokens)) > 0)
    => outcome = "SyntaxError"

\* C5, as claimed: the read position never decreases below the position of
\* a call, and no step examines a token that has been consumed.
C5_NoTokenReexamined ==
    /\ \A i \in 1..Len(stack) : stack[i].entry <= parser.current
    /\ \A r \in examined : r[1] >= r[2]

\* C5, amended: the read position never decreases, and a step examines only
\* the token at the read position or, by previous(), the token consumed
\* last; no token before that one is examined again.
C5_OnlyPreviousReexamined ==
    /\ [][parser'.current >= parser.current]_vars
    /\ [](\A r \in examined : r[2] - 1 <= r[1] /\ r[1] <= r[2])

\* previous() has read again the third token, consumed before
C5_Witness == <<2, 3>> \in examined

\* C6: when parse() returns for a token list that scan_tokens() produced,
\* the read position is at the end of the list, on its EOF token, and every
\* token before it has been consumed.
C6_ParseConsumesAllTokens ==
    outcome = "returned" =>
        /\ parser.tokens = scanner.tokens
        /\ parser.current = Len(parser.tokens) - 1
        /\ parser.tokens[parser.current + 1].type = "EOF"

\* a well-formed text of two statements has been scanned and parsed
C6_Witness ==
    /\ outcome = "returned"
    /\ Len(scanner.source) >= 10
    /\ Len(statements) = 2
    /\ \A i \in 1..Len(statements) : statements[i] # "None"

\* token i is the text of the source that starts at starts[i], and ends
\* before token i + 1 starts
InSourceOrder ==
    /\ Len(starts) = Len(scanner.tokens)
    /\ \A i \in 1..Len(scanner.tokens) :
          LET t == scanner.tokens[i]
          IN  /\ starts[i] + Len(t.lexeme) <= Len(scanner.source)
              /\ t.lexeme = Slice(scanner.source, starts[i], starts[i] + Len(t.lexeme))
              /\ i < Len(scanner.tokens) => starts[i] + Len(t.lexeme) <= starts[i + 1]

\* C7, as claimed: no token of the sequence is empty, and the tokens are in
\* the order of the source.
C7_NoTokenEmpty ==
    /\ \A i \in 1..Len(scanner.tokens) : Len(scanner.tokens[i].lexeme) >= 1
    /\ InSourceOrder

\* C7, amended: every token but the EOF token has a text of at least one
\* character, the EOF token (the last, and the only one) has the empty
\* text, and the tokens are in the order of the source.
C7_NoTokenEmptyButEOF ==
    /\ \A i \in 1..Len(scanner.tokens) :
          IF scanner.tokens[i].type = "EOF"
          THEN scanner.tokens[i].lexeme = <<>> /\ i = Len(scanner.tokens) /\ scanPc = "returned"
          ELSE Len(scanner.tokens[i].lexeme) >= 1
    /\ InSourceOrder

\* three tokens and the EOF token have been produced
C7_Witness ==
    /\ scanPc = "returned"
    /\ Len(scanner.tokens) = 4
    /\ Len(scanner.source) = 3

\* C8: 0 <= start <= current <= len(source) at every step; a call of
\* scan_token() raises SyntaxError or returns with current larger than at
\* the call; when scan_tokens() returns the token list has one EOF token,
\* its last element.
C8_ScannerProgress ==
    /\ 0 <= scanner.start
    /\ scanner.start <= scanner.current
    /\ scanner.current <= Len(scanner.source)
    /\ raised \in {"none", "SyntaxError"}
    /\ (scanPc = "scan_tokens" /\ called >= 0) => scanner.current > called
    /\ scanPc = "returned" =>
          /\ scanner.tokens # <<>>
          /\ \A i \in 1..Len(scanner.tokens) :
                scanner.tokens[i].type = "EOF" <=> i = Len(scanner.tokens)

\* C9: 0 <= current <= len(tokens) - 1; no read of peek() or previous() is
\* outside the token list; is_at_end() is true exactly when current is
\* len(tokens) - 1.
C9_CursorInvariant ==
    /\ 0 <= parser.current
    /\ parser.current <= Len(parser.tokens) - 1
    /\ \A r \in examined : 0 <= r[1] /\ r[1] <= Len(parser.tokens) - 1
    /\ is_at_end(parser) <=> parser.current = Len(parser.tokens) - 1

\* synchronize() has called advance() with the cursor on the EOF token,
\* and the cursor has stayed there
C9_Witness ==
    /\ outcome = "running"
    /\ Top.fn = "synchronize"
    /\ Top.pc = "loop"
    /\ parser.current = Top.entry
    /\ parser.current = Len(parser.tokens) - 1
    /\ parser.current >= 2

\* a call of declaration() is about to return
DeclarationReturns ==
    /\ outcome = "running"
    /\ Top.fn = "declaration"
    /\ Top.pc \in {"ret", "none"}

\* C10: a call of declaration() made with the cursor not on the EOF token
\* returns with the cursor further on, after a statement and after a caught
\* SyntaxError alike; the loops of parse() and block() make at most
\* len(tokens) - 1 iterations; parse() terminates.
C10_ParseLoopProgress ==
    /\ [](DeclarationReturns => parser.current > Top.entry)
    /\ [](\A i \in 1..Len(stack) :
            stack[i].fn \in {"parse", "block"} => stack[i].iters <= Len(parser.tokens) - 1)
    /\ <>(outcome # "running")

\* declaration() returns None after a statement that failed on its first
\* token, ')', which synchronize() alone has consumed
C10_Witness ==
    /\ DeclarationReturns
    /\ Top.pc = "none"
    /\ parser.tokens[Top.entry + 1].type = "RIGHT_PAREN"
    /\ parser.current = Top.entry + 1
    /\ Top.entry > 0

=============================================================================
